---- MODULE Spec2Model ----
(***************************************************************************)
(* Rent vs. Own calculator (src/app.py).                                   *)
(*                                                                         *)
(* The script reads the sidebar inputs, derives the loan and tax figures,  *)
(* then runs a 15-year projection loop whose body escalates the running    *)
(* totals, computes the two annual cash flows, grows the renter portfolio, *)
(* amortizes the loan for 12 months and appends one result per list.       *)
(*                                                                         *)
(* Arithmetic.  The program computes in binary floating point.  Here every *)
(* currency amount is an integer number of cents and every rate or         *)
(* fraction is an integer number of 1/SCALE (hundredths of a percent); a   *)
(* product or quotient is rounded to the nearest unit, as a floating-point *)
(* operation rounds to the nearest representable value.  Rounding is       *)
(* therefore part of the model: a closed form and the loop that computes   *)
(* it agree only as far as the code's own sequence of operations agrees.   *)
(***************************************************************************)
EXTENDS Integers, Sequences, FiniteSets, TLC

\* "/ 100" applied to every percentage input (src/app.py:18).
PERCENT == 100
\* One whole (100%) in rate units: a rate unit is a hundredth of a percent.
SCALE == PERCENT * PERCENT
\* One dollar in currency units (cents).
DOLLAR == PERCENT

\* range(1, 16): the projection covers years 1..HORIZON.
HORIZON == 15
\* range(12): amortization steps per simulated year.
MONTHS == 12
\* mortgage_term * 12 and mortgage_rate / 12.
PERIODS_PER_YEAR == 12

\* Largest purchase price of the explored inputs, in steps of PriceStep.
MaxPriceSteps == 2
\* Relative tolerance of the arithmetic: an amount counts as "zero within
\* rounding" when it is below loan_amount / TolDivisor.
TolDivisor == 1000

-----------------------------------------------------------------------------
(* Rounded arithmetic *)

Min(a, b) == IF a <= b THEN a ELSE b

\* a * b / c rounded to nearest, for c > 0, without forming a * b.
MulDivPos(a, b, c) == ((a \div c) * b) + ((((a % c) * b) + (c \div 2)) \div c)

\* a * b / c rounded to nearest, c # 0.
MulDiv(a, b, c) == IF c < 0 THEN MulDivPos(a, -b, -c) ELSE MulDivPos(a, b, c)

\* amount * fraction, the fraction in 1/SCALE.
Mul(a, f) == MulDiv(a, f, SCALE)

\* a / n rounded to nearest.
DivRound(a, n) == MulDiv(a, 1, n)

\* x times b, four and twelve times over, each product rounded.
Mul4(x, b) == Mul(Mul(Mul(Mul(x, b), b), b), b)

Mul12(x, b) == Mul4(Mul4(Mul4(x, b), b), b)

\* x * b ** n by n successive rounded products (twelve at a time to keep the
\* evaluation shallow).
RECURSIVE PowFrom(_, _, _)
PowFrom(x, b, n) ==
    IF n = 0 \/ x = 0 THEN x
    ELSE IF n >= 12 THEN PowFrom(Mul12(x, b), b, n - 12)
    ELSE PowFrom(Mul(x, b), b, n - 1)

\* b ** n for a fraction b in 1/SCALE.
Pow(b, n) == PowFrom(SCALE, b, n)

\* pmt as if called with when = 'begin': fact carries a factor (1 + rate).
pmt_begin(rate, nper, pv) ==
    IF rate = 0
    THEN -DivRound(pv, nper)
    ELSE LET temp == Pow(SCALE + rate, nper)
         IN  -MulDiv(MulDiv(Mul(pv, temp), rate, temp - SCALE), SCALE, SCALE + rate)

\* numpy_financial.pmt(rate, nper, pv) with fv = 0, when = 'end':
\*   temp = (1 + rate) ** nper; fact = nper if rate == 0 else (temp - 1) / rate
\*   pmt = -(pv * temp) / fact
\* computed as -(pv * temp) * rate / (temp - 1), one rounding per operation.
pmt(rate, nper, pv) ==
    IF rate = 0
    THEN -DivRound(pv, nper)
    ELSE LET temp == Pow(SCALE + rate, nper)
         IN  -MulDiv(Mul(pv, temp), rate, temp - SCALE)

-----------------------------------------------------------------------------
(* Sidebar inputs: the values the widgets can deliver *)

PriceStep == 275000 * DOLLAR

\* st.number_input("Purchase Price ($)"): no min_value, so negatives pass.
PurchasePrices == {-PriceStep} \cup {k * PriceStep : k \in 2..MaxPriceSteps}
\* st.slider("Down Payment %", 0.0, 1.0, 0.20)
DownPaymentPercents == {0, SCALE \div 5, SCALE}
\* st.number_input("Mortgage Rate (%)") / 100: no min_value.
MortgageRates == {-600, 0, 600, 900}
\* st.selectbox("Mortgage Term", [15, 30])
MortgageTerms == {15, 30}
AppreciationRates == {300, 500}
\* one below and one above the tax cap
InflationRates == {200, 400}

VARIABLES
    \* inputs (lines 14-46)
    purchase_price, down_payment_percent, mortgage_rate, mortgage_term,
    renovation_cost, reno_recapture, hoa_monthly, insurance_rate,
    maintenance_rate, tax_rate, assessed_value_pct, homestead_exemption,
    tax_cap_rate, appreciation_rate, inflation_rate, rent_appreciation,
    cost_of_capital, monthly_rent, selling_costs_pct,
    \* initial calc (lines 51-64)
    down_payment_dollars, loan_amount, initial_market_value,
    initial_cash_invested, monthly_rate, n_periods, monthly_pi,
    taxable_value_base, initial_tax_bill,
    \* result lists (lines 67-70)
    years, owner_net_outcome, renter_net_outcome, gap_data,
    \* running totals (lines 73-83)
    curr_home_value, curr_rent_monthly, curr_tax_bill, curr_hoa, curr_maint,
    curr_insurance, curr_loan_balance, renter_portfolio,
    \* loop locals (lines 85-141)
    year, month, owner_annual_spend, renter_annual_spend, cash_flow_diff,
    interest_paid, principal_paid,
    \* summary labels (lines 162-184)
    deltas,
    \* position in the script
    pc,
    \* history: sums of `interest` and `principal` over all months, and the
    \* number of months in which the `if curr_loan_balance > 0` branch ran
    total_interest, total_principal, months_paid

inputs == <<purchase_price, down_payment_percent, mortgage_rate, mortgage_term,
            renovation_cost, reno_recapture, hoa_monthly, insurance_rate,
            maintenance_rate, tax_rate, assessed_value_pct, homestead_exemption,
            tax_cap_rate, appreciation_rate, inflation_rate, rent_appreciation,
            cost_of_capital, monthly_rent, selling_costs_pct>>

derived == <<down_payment_dollars, loan_amount, initial_market_value,
             initial_cash_invested, monthly_rate, n_periods, monthly_pi,
             taxable_value_base, initial_tax_bill>>

results == <<years, owner_net_outcome, renter_net_outcome, gap_data>>

escalated == <<curr_home_value, curr_rent_monthly, curr_tax_bill, curr_hoa,
               curr_maint, curr_insurance>>

cashflow == <<owner_annual_spend, renter_annual_spend, cash_flow_diff>>

history == <<total_interest, total_principal, months_paid>>

vars == <<inputs, derived, results, escalated, curr_loan_balance,
          renter_portfolio, year, month, cashflow, interest_paid,
          principal_paid, deltas, pc, history>>

\* Line 52.
DownPaymentDollars == Mul(purchase_price, down_payment_percent)

\* Line 53.
LoanAmount == purchase_price - DownPaymentDollars

\* Line 54.
InitialMarketValue == purchase_price + Mul(renovation_cost, reno_recapture)

\* Line 55.
InitialCashInvested == DownPaymentDollars + renovation_cost

\* Line 58.
MonthlyRate == DivRound(mortgage_rate, PERIODS_PER_YEAR)

\* The term taken as a number of periods, without the conversion to months.
NPeriods_years == mortgage_term

\* Line 59.
NPeriods == mortgage_term * PERIODS_PER_YEAR

\* Line 60.
MonthlyPi == -pmt(MonthlyRate, NPeriods, LoanAmount)

\* Line 63.
TaxableValueBase == Mul(purchase_price - homestead_exemption, assessed_value_pct)

\* Line 64.
InitialTaxBill == Mul(TaxableValueBase, tax_rate)

\* Lines 14-85: the widgets deliver the inputs, then the initial calc, the
\* mortgage P&I, the tax base, the empty result lists and the state
\* variables, up to the entry into the loop with year = 1.
Init ==
    /\ purchase_price \in PurchasePrices
    /\ down_payment_percent \in DownPaymentPercents
    /\ mortgage_rate \in MortgageRates
    /\ mortgage_term \in MortgageTerms
    /\ renovation_cost = 50000 * DOLLAR
    /\ reno_recapture = 8000
    /\ hoa_monthly = 700 * DOLLAR
    /\ insurance_rate = 100
    /\ maintenance_rate = 150
    /\ tax_rate = 250
    /\ assessed_value_pct = 8600
    /\ homestead_exemption = 75000 * DOLLAR
    /\ tax_cap_rate = 300
    /\ appreciation_rate \in AppreciationRates
    /\ inflation_rate \in InflationRates
    /\ rent_appreciation = 250
    /\ cost_of_capital = 500
    /\ monthly_rent = 3500 * DOLLAR
    /\ selling_costs_pct = 700
    /\ down_payment_dollars = DownPaymentDollars
    /\ loan_amount = LoanAmount
    /\ initial_market_value = InitialMarketValue
    /\ initial_cash_invested = InitialCashInvested
    /\ monthly_rate = MonthlyRate
    /\ n_periods = NPeriods
    /\ monthly_pi = MonthlyPi
    /\ taxable_value_base = TaxableValueBase
    /\ initial_tax_bill = InitialTaxBill
    /\ years = <<>> /\ owner_net_outcome = <<>>
    /\ renter_net_outcome = <<>> /\ gap_data = <<>>
    /\ curr_home_value = InitialMarketValue
    /\ curr_rent_monthly = monthly_rent
    /\ curr_tax_bill = InitialTaxBill
    /\ curr_hoa = hoa_monthly
    /\ curr_maint = Mul(InitialMarketValue, maintenance_rate)
    /\ curr_insurance = Mul(InitialMarketValue, insurance_rate)
    /\ curr_loan_balance = LoanAmount
    /\ renter_portfolio = InitialCashInvested
    /\ year = 1 /\ month = 0
    /\ owner_annual_spend = 0 /\ renter_annual_spend = 0 /\ cash_flow_diff = 0
    /\ interest_paid = 0 /\ principal_paid = 0
    /\ deltas = <<>>
    /\ pc = "year_start"
    /\ total_interest = 0 /\ total_principal = 0 /\ months_paid = 0

-----------------------------------------------------------------------------
(* The script *)

\* The tax bill growing with inflation, uncapped.
tax_growth_uncapped == inflation_rate

\* Line 96: tax bill grows by the lesser of inflation or cap.
tax_growth == Min(inflation_rate, tax_cap_rate)

\* Lines 88 and 100: the home value appreciates in both branches of `if year > 1`.
HomeValueUpdate == Mul(curr_home_value, SCALE + appreciation_rate)

\* Rent escalated in every year, the first included.
RentUpdate_every_year == Mul(curr_rent_monthly, SCALE + rent_appreciation)

\* Line 89 (only when year > 1).
RentUpdate ==
    IF year > 1 THEN Mul(curr_rent_monthly, SCALE + rent_appreciation)
    ELSE curr_rent_monthly

\* Line 90 (only when year > 1).
HoaUpdate ==
    IF year > 1 THEN Mul(curr_hoa, SCALE + inflation_rate) ELSE curr_hoa

\* Maintenance re-derived each year from the current home value.
MaintUpdate_from_value == Mul(curr_home_value, maintenance_rate)

\* Line 91 (only when year > 1).
MaintUpdate ==
    IF year > 1 THEN Mul(curr_maint, SCALE + inflation_rate) ELSE curr_maint

\* Line 92 (only when year > 1).
InsuranceUpdate ==
    IF year > 1 THEN Mul(curr_insurance, SCALE + inflation_rate)
    ELSE curr_insurance

\* Line 97 (only when year > 1).
TaxBillUpdate ==
    IF year > 1 THEN Mul(curr_tax_bill, SCALE + tax_growth) ELSE curr_tax_bill

\* The payment charged only while a balance is outstanding.
OwnerAnnualSpend_until_payoff(pi, hoa, tax, maint, ins) ==
    (IF curr_loan_balance > 0 THEN pi * 12 ELSE 0) + (hoa * 12) + tax + maint + ins

\* Line 104, over the values of the year.
OwnerAnnualSpend(pi, hoa, tax, maint, ins) ==
    (pi * 12) + (hoa * 12) + tax + maint + ins

\* Line 105.
RenterAnnualSpend(rent) == rent * 12

\* The comment of line 113 taken literally: (balance + contribution) * growth.
PortfolioUpdate_grow_sum(portfolio, diff) == Mul(portfolio + diff, SCALE + cost_of_capital)

\* Line 115.
PortfolioUpdate(portfolio, diff) == Mul(portfolio, SCALE + cost_of_capital) + diff

\* Lines 86-120: escalation, annual cash flows, savings difference, renter
\* portfolio, and the reset of the yearly interest/principal sums.
AnnualCashFlow ==
    /\ pc = "year_start"
    /\ curr_home_value' = HomeValueUpdate
    /\ curr_rent_monthly' = RentUpdate
    /\ curr_hoa' = HoaUpdate
    /\ curr_maint' = MaintUpdate
    /\ curr_insurance' = InsuranceUpdate
    /\ curr_tax_bill' = TaxBillUpdate
    /\ owner_annual_spend' = OwnerAnnualSpend(monthly_pi, curr_hoa', curr_tax_bill',
                                              curr_maint', curr_insurance')
    /\ renter_annual_spend' = RenterAnnualSpend(curr_rent_monthly')
    /\ cash_flow_diff' = owner_annual_spend' - renter_annual_spend'
    /\ renter_portfolio' = PortfolioUpdate(renter_portfolio, cash_flow_diff')
    /\ interest_paid' = 0
    /\ principal_paid' = 0
    /\ month' = 0
    /\ pc' = "pay_loan"
    /\ UNCHANGED <<inputs, derived, results, curr_loan_balance, year, deltas,
                   history>>

\* Line 123.
Interest(balance) == Mul(balance, monthly_rate)

\* Line 124.
Principal(balance) == monthly_pi - Interest(balance)

\* Lines 122-129: the balance after one pass of the monthly loop body.
BalanceAfterMonth(balance) ==
    IF balance > 0 THEN balance - Principal(balance) ELSE 0

\* Lines 121-129: one iteration of `for _ in range(12)`.
PayDownLoan ==
    /\ pc = "pay_loan"
    /\ month < MONTHS
    /\ curr_loan_balance' = BalanceAfterMonth(curr_loan_balance)
    /\ IF curr_loan_balance > 0
       THEN /\ interest_paid' = interest_paid + Interest(curr_loan_balance)
            /\ principal_paid' = principal_paid + Principal(curr_loan_balance)
            /\ total_interest' = total_interest + Interest(curr_loan_balance)
            /\ total_principal' = total_principal + Principal(curr_loan_balance)
            /\ months_paid' = months_paid + 1
       ELSE UNCHANGED <<interest_paid, principal_paid, history>>
    /\ month' = month + 1
    /\ UNCHANGED <<inputs, derived, results, escalated, renter_portfolio, year,
                   cashflow, deltas, pc>>

\* Line 134.
owner_equity ==
    curr_home_value - Mul(curr_home_value, selling_costs_pct) - curr_loan_balance

\* Line 137.
renter_equity == renter_portfolio

\* Line 141.
benefit == owner_equity - renter_equity

\* range(1, 17): one year too many.
HasNextYear_one_more == year < HORIZON + 1

\* Line 85: `for year in range(1, 16)` has a next value.
HasNextYear == year < HORIZON

\* Lines 131-146, and the loop header's step to the next year or out of the
\* loop.
NetWorth ==
    /\ pc = "pay_loan"
    /\ month = MONTHS
    /\ years' = Append(years, year)
    /\ owner_net_outcome' = Append(owner_net_outcome, owner_equity)
    /\ renter_net_outcome' = Append(renter_net_outcome, renter_equity)
    /\ gap_data' = Append(gap_data, benefit)
    /\ IF HasNextYear
       THEN year' = year + 1 /\ pc' = "year_start"
       ELSE year' = year /\ pc' = "display"
    /\ UNCHANGED <<inputs, derived, escalated, curr_loan_balance,
                   renter_portfolio, month, cashflow, interest_paid,
                   principal_paid, deltas, history>>

\* Lines 166, 174, 182: the label of one summary metric.
Delta(gap) == IF gap > 0 THEN "Owner Wins" ELSE "Renter Wins"

\* Lines 148-184: the data frame and the year 5 / 10 / 15 metrics.
Display ==
    /\ pc = "display"
    /\ deltas' = <<Delta(gap_data[5]), Delta(gap_data[10]), Delta(gap_data[15])>>
    /\ pc' = "done"
    /\ UNCHANGED <<inputs, derived, results, escalated, curr_loan_balance,
                   renter_portfolio, year, month, cashflow, interest_paid,
                   principal_paid, history>>

Next == AnnualCashFlow \/ PayDownLoan \/ NetWorth \/ Display

Spec == Init /\ [][Next]_vars

\* The script runs top to bottom without waiting on anything: whenever a
\* statement is enabled it is eventually executed.
FairSpec == Spec /\ WF_vars(Next)

-----------------------------------------------------------------------------
(* Properties *)

Abs(x) == IF x < 0 THEN -x ELSE x

\* x *= (1 + rate), applied n times.
RECURSIVE Grow(_, _, _)
Grow(x, rate, n) == IF n = 0 THEN x ELSE Mul(Grow(x, rate, n - 1), SCALE + rate)

\* The domain stated for an Assumptions record: the inputs a claim calls
\* well-formed.
WellFormed ==
    /\ purchase_price >= 0 /\ renovation_cost >= 0
    /\ hoa_monthly >= 0 /\ monthly_rent >= 0 /\ homestead_exemption >= 0
    /\ down_payment_percent \in 0..SCALE /\ reno_recapture \in 0..SCALE
    /\ mortgage_term \in {15, 30}
    /\ mortgage_rate >= 0 /\ insurance_rate >= 0 /\ maintenance_rate >= 0
    /\ tax_rate >= 0 /\ assessed_value_pct >= 0 /\ tax_cap_rate >= 0
    /\ appreciation_rate >= 0 /\ inflation_rate >= 0
    /\ rent_appreciation >= 0 /\ cost_of_capital >= 0
    /\ selling_costs_pct >= 0

\* Months of amortization already run, from the position in the script.
MonthsElapsed ==
    IF pc = "year_start" THEN (year - 1) * MONTHS
    ELSE IF pc = "pay_loan" THEN ((year - 1) * MONTHS) + month
    ELSE HORIZON * MONTHS

\* An amount that is zero up to the rounding of the arithmetic.
NearZero(x) == Abs(x) * TolDivisor <= Abs(loan_amount)

\* A list that only grows: its old contents are a prefix of its new contents.
Extends(new, old) ==
    /\ Len(new) >= Len(old)
    /\ SubSeq(new, 1, Len(old)) = old

\* C1: for a well-formed input the outstanding loan balance is never
\* negative, after any monthly amortization step and at every year end.
C1_BalanceNeverNegative ==
    WellFormed => curr_loan_balance >= 0

\* C2: when an input is outside its stated domain, no year result is ever
\* produced: all four result lists stay empty.
C2_InvalidInputYieldsNoResult ==
    ~WellFormed =>
        /\ years = <<>> /\ owner_net_outcome = <<>>
        /\ renter_net_outcome = <<>> /\ gap_data = <<>>

\* C3: for a well-formed input with mortgage rate > 0 and term 15, after the
\* 180 monthly steps of the 15 years the balance is zero within rounding,
\* the principal paid sums to the loan amount within rounding, and total
\* interest plus total principal equals 180 payments.
C3_AmortizationRetiresLoan ==
    (/\ WellFormed /\ mortgage_rate > 0 /\ mortgage_term = 15
     /\ pc \in {"display", "done"}) =>
        /\ NearZero(curr_loan_balance)
        /\ NearZero(total_principal - loan_amount)
        /\ total_interest + total_principal = 180 * monthly_pi

C3_Witness ==
    /\ pc = "done" /\ WellFormed /\ mortgage_rate > 0 /\ mortgage_term = 15
    /\ loan_amount > 0 /\ months_paid = 180 /\ total_interest > 0

\* C4: year 1's cash flows use the unescalated rent, HOA, maintenance,
\* insurance and tax bill; the home value alone is escalated in year 1, so
\* that in year y the home value has been appreciated y times and the rent
\* y - 1 times.
C4_YearOneFreeze ==
    pc = "pay_loan" =>
        /\ curr_home_value = Grow(initial_market_value, appreciation_rate, year)
        /\ curr_rent_monthly = Grow(monthly_rent, rent_appreciation, year - 1)
        /\ year = 1 =>
            /\ curr_rent_monthly = monthly_rent
            /\ curr_hoa = hoa_monthly
            /\ curr_maint = Mul(initial_market_value, maintenance_rate)
            /\ curr_insurance = Mul(initial_market_value, insurance_rate)
            /\ curr_tax_bill = initial_tax_bill
            /\ owner_annual_spend =
                 (12 * monthly_pi) + (12 * hoa_monthly) + initial_tax_bill
                 + Mul(initial_market_value, maintenance_rate)
                 + Mul(initial_market_value, insurance_rate)
            /\ renter_annual_spend = 12 * monthly_rent

C4_Witness ==
    /\ pc = "pay_loan" /\ year = 1 /\ WellFormed
    /\ curr_home_value > initial_market_value
    /\ curr_rent_monthly = monthly_rent /\ rent_appreciation > 0

\* C5: in every year 2..15 the tax bill is the previous year's tax bill
\* times (1 + min(inflation_rate, tax_cap_rate)), which is the cap when
\* inflation exceeds it, while HOA, maintenance and insurance grow by the
\* full inflation rate.
C5_TaxCap ==
    [][(pc = "year_start" /\ year >= 2) =>
        /\ curr_tax_bill' =
             Mul(curr_tax_bill, SCALE + Min(inflation_rate, tax_cap_rate))
        /\ inflation_rate > tax_cap_rate =>
             curr_tax_bill' = Mul(curr_tax_bill, SCALE + tax_cap_rate)
        /\ curr_hoa' = Mul(curr_hoa, SCALE + inflation_rate)
        /\ curr_maint' = Mul(curr_maint, SCALE + inflation_rate)
        /\ curr_insurance' = Mul(curr_insurance, SCALE + inflation_rate)]_vars

C5_Witness ==
    /\ pc = "pay_loan" /\ year >= 2 /\ WellFormed
    /\ inflation_rate > tax_cap_rate
    /\ curr_tax_bill > initial_tax_bill
    /\ curr_tax_bill < Grow(initial_tax_bill, inflation_rate, year - 1)

\* C6: the run ends, having produced exactly 15 results numbered 1..15 in
\* order; the four result lists always have the same length, and what has
\* been appended is never changed or removed.
C6_FifteenResultsInOrder ==
    /\ [](/\ Len(owner_net_outcome) = Len(years)
          /\ Len(renter_net_outcome) = Len(years)
          /\ Len(gap_data) = Len(years)
          /\ \A i \in 1..Len(years) : years[i] = i
          /\ pc \in {"display", "done"} => Len(years) = 15)
    /\ [][/\ Extends(years', years)
          /\ Extends(owner_net_outcome', owner_net_outcome)
          /\ Extends(renter_net_outcome', renter_net_outcome)
          /\ Extends(gap_data', gap_data)]_vars
    /\ <>(pc = "done")

C6_Witness ==
    /\ pc = "done" /\ WellFormed
    /\ years = <<1, 2, 3, 4, 5, 6, 7, 8, 9, 10, 11, 12, 13, 14, 15>>
    /\ Len(gap_data) = 15

\* C7: in every simulated year the owner's annual spend is 12 payments plus
\* 12 HOA fees plus tax bill, maintenance and insurance, with the payment
\* computed once before the loop and never changed by it, whether or not
\* the balance has reached zero.
C7_FixedPaymentCharged ==
    /\ [](pc = "pay_loan" =>
            owner_annual_spend =
              (12 * monthly_pi) + (12 * curr_hoa) + curr_tax_bill
              + curr_maint + curr_insurance)
    /\ [][monthly_pi' = monthly_pi]_vars

C7_Witness ==
    /\ pc = "pay_loan" /\ year >= 2 /\ month = 0
    /\ curr_loan_balance = 0 /\ monthly_pi # 0
    /\ owner_annual_spend =
         (12 * monthly_pi) + (12 * curr_hoa) + curr_tax_bill
         + curr_maint + curr_insurance

\* C8: with a mortgage rate of 0 the payment is loan_amount / n for
\* n = term * 12, no interest is charged, and until the balance reaches
\* zero it is loan_amount - k * payment after k months.
C8_ZeroRateLinear ==
    (WellFormed /\ mortgage_rate = 0) =>
        /\ monthly_pi = DivRound(loan_amount, mortgage_term * 12)
        /\ interest_paid = 0 /\ total_interest = 0
        /\ curr_loan_balance > 0 =>
             curr_loan_balance = loan_amount - (MonthsElapsed * monthly_pi)
        /\ curr_loan_balance <= 0 =>
             loan_amount - (MonthsElapsed * monthly_pi) <= 0

C8_Witness ==
    /\ WellFormed /\ mortgage_rate = 0 /\ pc = "pay_loan"
    /\ year = 8 /\ month = 6 /\ monthly_pi > 0
    /\ curr_loan_balance = loan_amount - (90 * monthly_pi)
    /\ curr_loan_balance > 0

C10_MaintenanceTracksInflation ==
    pc = "pay_loan" =>
        LET base == purchase_price + Mul(renovation_cost, reno_recapture)
        IN  /\ curr_maint =
                 Grow(Mul(base, maintenance_rate), inflation_rate, year - 1)
            /\ curr_insurance =
                 Grow(Mul(base, insurance_rate), inflation_rate, year - 1)

C10_Witness ==
    /\ pc = "pay_loan" /\ year = HORIZON /\ WellFormed
    /\ appreciation_rate # inflation_rate
    /\ curr_maint > Mul(initial_market_value, maintenance_rate)
    /\ curr_maint # Mul(curr_home_value, maintenance_rate)

====
